---- MODULE Spec2Model ----
(***************************************************************************)
(* Reference-counted shared_ptr / weak_ptr pair and their control block,   *)
(* as implemented in src/shared_ptr.h and src/control_block.h.             *)
(*                                                                         *)
(* A state holds the control blocks allocated so far (counters, stored     *)
(* payload pointer, deleter type, the calls of delete_object() made on     *)
(* them and the number of `delete control` executed on them), and a fixed  *)
(* number of handle variables of the calling program.  Every member        *)
(* function is one action; the temporaries it builds and destroys are      *)
(* part of the action.  The program is single threaded and performs at    *)
(* most MaxOps operations.  A raw pointer handed to a constructor or to    *)
(* reset is a newly allocated object.                                      *)
(*                                                                         *)
(* Spec runs programs whose handles are variables and whose objects hold   *)
(* no handles.  SpecSteps runs the destructors and the copy assignment of  *)
(* shared_ptr statement by statement on objects that hold handles (mem,    *)
(* stack), where a destructor runs inside another member function.         *)
(*                                                                         *)
(* Pointers are object identities: 0 is nullptr, b in 1..MaxBlocks is the  *)
(* address of the object handed to (or created for) control block b, Elem  *)
(* is the address of a sub-object used by the aliasing constructors.  A    *)
(* static_cast between the related types Y and T keeps the identity of a   *)
(* non-null pointer and maps nullptr to nullptr.                           *)
(***************************************************************************)
EXTENDS Integers, Sequences, FiniteSets, TLC

\* ---------------------------------------------------------------- bounds
MaxBlocks == 2      \* control blocks allocated in one behaviour
MaxOps == 5         \* operations the program performs in one behaviour
MaxLeak == 1        \* references one block may lose to operator=(const shared_ptr<Y>&)
MaxDeletes == 2     \* cap on delete_object() calls recorded per block

Null == 0
Blocks == 1..MaxBlocks
Elem == MaxBlocks + 1
Ptrs == 0..Elem
\* the element pointer handed to the aliasing constructors
AliasPtrs == {Elem}
\* The handle variables of the program: y is a shared_ptr<Y>, a and b are
\* shared_ptr<T>, u and v are weak_ptr<T>; Y* converts to T* (Y derives from T).
SHandles == {"y", "a", "b"}
WHandles == {"u", "v"}
SType(h) == IF h = "y" THEN "Y" ELSE "T"
None == "-"

VARIABLES cb, nalloc, sh, wk, tainted, last, nops, mem, stack
vars == <<cb, nalloc, sh, wk, tainted, last, nops, mem, stack>>

\* ---------------------------------------------------------- control block
\* struct control_block with the members of not_init_block; `deleted` is the
\* log of delete_object() calls, `released` counts `delete control`.
FreshBlock(p, d) ==
  [shared_counter |-> 0, weak_counter |-> 0, ptr |-> p, deleter |-> d,
   variant |-> "not_init_block", deleted |-> <<>>, released |-> 0]

NoBlock ==
  [shared_counter |-> 0, weak_counter |-> 0, ptr |-> Null, deleter |-> "none",
   variant |-> "none", deleted |-> <<>>, released |-> 0]

\* not_init_block::delete_object: the stored deleter applied to the stored ptr
delete_object(cbs, c) ==
  [cbs EXCEPT ![c].deleted = Append(@, [fn |-> cbs[c].deleter, arg |-> cbs[c].ptr])]

\* `delete control`
delete_control(cbs, c) == [cbs EXCEPT ![c].released = @ + 1]

\* shared_ptr::increase_control
increase_control(cbs, c) ==
  IF c = Null THEN cbs ELSE [cbs EXCEPT ![c].shared_counter = @ + 1]

\* weak_ptr::increase_control
weak_increase_control(cbs, c) ==
  IF c = Null THEN cbs ELSE [cbs EXCEPT ![c].weak_counter = @ + 1]

\* ~shared_ptr without the call of delete_object()
shared_dtor_no_delete(cbs, c) ==
  IF c = Null THEN cbs
  ELSE LET d == [cbs EXCEPT ![c].shared_counter = @ - 1] IN
       IF d[c].shared_counter = 0 /\ d[c].weak_counter = 0
       THEN delete_control(d, c) ELSE d

\* shared_ptr::~shared_ptr on a handle whose control pointer is c
shared_dtor(cbs, c) ==
  IF c = Null THEN cbs
  ELSE LET d == [cbs EXCEPT ![c].shared_counter = @ - 1] IN
       IF d[c].shared_counter = 0
       THEN LET e == delete_object(d, c) IN
            IF e[c].weak_counter = 0 THEN delete_control(e, c) ELSE e
       ELSE d

\* weak_ptr::~weak_ptr on a handle whose control pointer is c
weak_dtor(cbs, c) ==
  IF c = Null THEN cbs
  ELSE LET d == [cbs EXCEPT ![c].weak_counter = @ - 1] IN
       IF d[c].shared_counter = 0 /\ d[c].weak_counter = 0
       THEN delete_control(d, c) ELSE d

\* ---------------------------------------------------------------- handles
EmptyS == [live |-> TRUE, control |-> Null, ptr |-> Null]
DeadS == [live |-> FALSE, control |-> Null, ptr |-> Null]
Strong(c, p) == [live |-> TRUE, control |-> c, ptr |-> p]

\* `from` is the object pointer of the strong handle a weak handle descends from
EmptyW == [live |-> TRUE, control |-> Null, ptr |-> Null, from |-> Null]
DeadW == [live |-> FALSE, control |-> Null, ptr |-> Null, from |-> Null]

\* static_cast<T*>(Y*)
static_cast(p) == IF p = Null THEN Null ELSE p

\* observers; cbs is the heap of control blocks they read
get(s) == s.ptr
use_count(cbs, s) == IF s.control = Null THEN 0 ELSE cbs[s.control].shared_counter
bool(s) == s.ptr # Null
equals(l, r) == get(l) = get(r)
weak_use_count(cbs, w) == IF w.control = Null THEN 0 ELSE cbs[w.control].shared_counter
expired(cbs, w) == weak_use_count(cbs, w) = 0

\* The operation performed last: its name, the variable it wrote (dst), the
\* variable it read (src), the heap allocations it made, and one value it
\* received or observed on entry (pre).
Op(name, d, s, n, x) == [op |-> name, dst |-> d, src |-> s, allocs |-> n, pre |-> x]

\* A managed object that holds handles itself:
\*   struct Node { shared_ptr<Node> next; weak_ptr<Node> self; };
\* mem[o] are the members of the Node at address o, for the Nodes created so
\* far.  A destroyed member keeps the bits it held (live is FALSE, control
\* and ptr are stale).
NewNodeMembers == [alive |-> TRUE, next |-> EmptyS, self |-> EmptyW]

Init ==
  /\ cb = [b \in Blocks |-> NoBlock]
  /\ nalloc = 0
  /\ sh = [h \in SHandles |-> DeadS]
  /\ wk = [w \in WHandles |-> DeadW]
  /\ tainted = [b \in Blocks |-> FALSE]
  /\ last = Op("init", None, None, 0, 0)
  /\ nops = 0
  /\ mem = <<>>
  /\ stack = <<>>

\* ------------------------------------------------- shared_ptr constructors
\* shared_ptr() and shared_ptr(nullptr_t)
SharedDefault(h) ==
  /\ ~sh[h].live
  /\ sh' = [sh EXCEPT ![h] = EmptyS]
  /\ last' = Op("SharedDefault", h, None, 0, 0)
  /\ UNCHANGED <<cb, nalloc, wk, tainted>>

\* the result of `new not_init_block<Y, D>(p, d)` followed by increase_control()
NewOwner(cbs, n, p, d) ==
  increase_control([cbs EXCEPT ![n] = FreshBlock(p, d)], n)

\* shared_ptr(Y* p): p is a newly allocated object
SharedFromPtr(h) ==
  /\ ~sh[h].live
  /\ nalloc < MaxBlocks
  /\ cb' = NewOwner(cb, nalloc + 1, nalloc + 1, "default_delete")
  /\ sh' = [sh EXCEPT ![h] = Strong(nalloc + 1, static_cast(nalloc + 1))]
  /\ nalloc' = nalloc + 1
  /\ last' = Op("SharedFromPtr", h, None, 1, 0)
  /\ UNCHANGED <<wk, tainted>>

\* shared_ptr(Y* p, Deleter d)
SharedFromPtrDeleter(h) ==
  /\ ~sh[h].live
  /\ nalloc < MaxBlocks
  /\ cb' = NewOwner(cb, nalloc + 1, nalloc + 1, "D")
  /\ sh' = [sh EXCEPT ![h] = Strong(nalloc + 1, static_cast(nalloc + 1))]
  /\ nalloc' = nalloc + 1
  /\ last' = Op("SharedFromPtrDeleter", h, None, 1, 0)
  /\ UNCHANGED <<wk, tainted>>

\* shared_ptr(nullptr_t p, Deleter d)
SharedFromNullDeleter(h) ==
  /\ ~sh[h].live
  /\ nalloc < MaxBlocks
  /\ cb' = NewOwner(cb, nalloc + 1, Null, "D")
  /\ sh' = [sh EXCEPT ![h] = Strong(nalloc + 1, Null)]
  /\ nalloc' = nalloc + 1
  /\ last' = Op("SharedFromNullDeleter", h, None, 1, 0)
  /\ UNCHANGED <<wk, tainted>>

\* make_shared<T>(args...): `new T(args...)`, then shared_ptr<T>(T*)
make_shared(cbs, n) == NewOwner(cbs, n, n, "default_delete")

MakeShared(h) ==
  /\ ~sh[h].live
  /\ nalloc < MaxBlocks
  /\ cb' = make_shared(cb, nalloc + 1)
  /\ sh' = [sh EXCEPT ![h] = Strong(nalloc + 1, nalloc + 1)]
  /\ nalloc' = nalloc + 1
  /\ last' = Op("MakeShared", h, None, 2, 0)
  /\ UNCHANGED <<wk, tainted>>

\* shared_ptr(const shared_ptr<Y>& r, T* p): aliasing, copy form
AliasCopy(h, r, p) ==
  /\ ~sh[h].live /\ sh[r].live
  /\ cb' = increase_control(cb, sh[r].control)
  /\ sh' = [sh EXCEPT ![h] = Strong(sh[r].control, p)]
  /\ last' = Op("AliasCopy", h, r, 0, p)
  /\ UNCHANGED <<nalloc, wk, tainted>>

\* shared_ptr(shared_ptr<Y>&& r, T* p): aliasing, move form; r.swap(*this)
\* takes a shared_ptr<Y>&, so the form exists for Y = T only
AliasMove(h, r, p) ==
  /\ ~sh[h].live /\ sh[r].live /\ SType(h) = SType(r)
  /\ sh' = [sh EXCEPT ![h] = Strong(sh[r].control, p), ![r] = EmptyS]
  /\ last' = Op("AliasMove", h, r, 0, p)
  /\ UNCHANGED <<cb, nalloc, wk, tainted>>

\* shared_ptr(const shared_ptr& r)
SharedCopy(h, r) ==
  /\ ~sh[h].live /\ sh[r].live /\ SType(h) = SType(r)
  /\ cb' = increase_control(cb, sh[r].control)
  /\ sh' = [sh EXCEPT ![h] = Strong(sh[r].control, sh[r].ptr)]
  /\ last' = Op("SharedCopy", h, r, 0, 0)
  /\ UNCHANGED <<nalloc, wk, tainted>>

\* shared_ptr(const shared_ptr<Y>& r)
SharedCopyConv(h, r) ==
  /\ ~sh[h].live /\ sh[r].live /\ SType(h) = "T" /\ SType(r) = "Y"
  /\ cb' = increase_control(cb, sh[r].control)
  /\ sh' = [sh EXCEPT ![h] = Strong(sh[r].control, static_cast(sh[r].ptr))]
  /\ last' = Op("SharedCopyConv", h, r, 0, 0)
  /\ UNCHANGED <<nalloc, wk, tainted>>

\* shared_ptr(shared_ptr&& r): r.swap(*this); shared_ptr<T>().swap(r)
SharedMove(h, r) ==
  /\ ~sh[h].live /\ sh[r].live /\ SType(h) = SType(r)
  /\ sh' = [sh EXCEPT ![h] = Strong(sh[r].control, sh[r].ptr), ![r] = EmptyS]
  /\ last' = Op("SharedMove", h, r, 0, 0)
  /\ UNCHANGED <<cb, nalloc, wk, tainted>>

\* a constructor from weak_ptr that yields an empty handle when r.expired()
SharedFromWeakChecked(h, w) ==
  /\ ~sh[h].live /\ wk[w].live /\ SType(h) = "T"
  /\ cb' = IF expired(cb, wk[w]) THEN cb ELSE increase_control(cb, wk[w].control)
  /\ sh' = [sh EXCEPT ![h] = IF expired(cb, wk[w]) THEN EmptyS
                             ELSE Strong(wk[w].control, wk[w].ptr)]
  /\ last' = Op("SharedFromWeak", h, w, 0, 0)
  /\ UNCHANGED <<nalloc, wk, tainted>>

\* explicit shared_ptr(const weak_ptr<Y>& r): no check of r.expired()
SharedFromWeak(h, w) ==
  /\ ~sh[h].live /\ wk[w].live /\ SType(h) = "T"
  /\ expired(cb, wk[w]) /\ wk[w].control # Null
       => Len(cb[wk[w].control].deleted) < MaxDeletes
  /\ cb' = increase_control(cb, wk[w].control)
  /\ sh' = [sh EXCEPT ![h] = Strong(wk[w].control, wk[w].ptr)]
  /\ tainted' = [b \in Blocks |->
                   tainted[b] \/ (b = wk[w].control /\ cb[b].shared_counter = 0)]
  /\ last' = Op("SharedFromWeak", h, w, 0, 0)
  /\ UNCHANGED <<nalloc, wk>>

\* ~shared_ptr()
SharedDestroy(h) ==
  /\ sh[h].live
  /\ cb' = shared_dtor(cb, sh[h].control)
  /\ sh' = [sh EXCEPT ![h] = DeadS]
  /\ last' = Op("SharedDestroy", h, None, 0, 0)
  /\ UNCHANGED <<nalloc, wk, tainted>>

\* ------------------------------------------------- shared_ptr assignment
\* operator= without the comparison *this == r
copy_assign_unchecked(cbs, a, r) ==
  [cbs |-> increase_control(shared_dtor(cbs, a.control), r.control),
   a |-> Strong(r.control, r.ptr)]

\* operator=(const shared_ptr& r): returns at once when *this == r, else
\* shared_ptr<T>().swap(*this) (the temporary releases the old state), then
\* control = r.control; increase_control(); ptr = r.ptr
copy_assign(cbs, a, r) ==
  IF equals(a, r) THEN [cbs |-> cbs, a |-> a]
  ELSE [cbs |-> increase_control(shared_dtor(cbs, a.control), r.control),
        a |-> Strong(r.control, r.ptr)]

SharedCopyAssign(a, r) ==
  /\ sh[a].live /\ sh[r].live /\ SType(a) = SType(r)
  /\ LET res == copy_assign(cb, sh[a], sh[r]) IN
       /\ cb' = res.cbs
       /\ sh' = [sh EXCEPT ![a] = res.a]
  /\ last' = Op("SharedCopyAssign", a, r, 0, IF equals(sh[a], sh[r]) THEN 1 ELSE 0)
  /\ UNCHANGED <<nalloc, wk, tainted>>

\* live shared_ptr / weak_ptr variables whose control pointer is b
StrongOnIn(shs, b) == {h \in SHandles : shs[h].live /\ shs[h].control = b}
StrongOn(b) == StrongOnIn(sh, b)
WeakOn(b) == {w \in WHandles : wk[w].live /\ wk[w].control = b}
Leaked(b) == cb[b].shared_counter - Cardinality(StrongOn(b))

\* operator=(const shared_ptr<Y>& r): control = r.control;
\* increase_control(); ptr = static_cast<T*>(r.ptr).  The previous control
\* block of *this is overwritten without being released.
copy_assign_conv(cbs, a, r) ==
  [cbs |-> increase_control(cbs, r.control),
   a |-> Strong(r.control, static_cast(r.ptr))]

SharedCopyAssignConv(a, r) ==
  /\ sh[a].live /\ sh[r].live /\ SType(a) = "T" /\ SType(r) = "Y"
  /\ sh[a].control # Null => Leaked(sh[a].control) < MaxLeak
  /\ LET res == copy_assign_conv(cb, sh[a], sh[r]) IN
       /\ cb' = res.cbs
       /\ sh' = [sh EXCEPT ![a] = res.a]
  /\ last' = Op("SharedCopyAssignConv", a, r, 0, 0)
  /\ UNCHANGED <<nalloc, wk, tainted>>

\* move assignment that leaves r as it was
move_assign_keeps_source(cbs, a, r) ==
  [cbs |-> shared_dtor(cbs, a.control), a |-> Strong(r.control, r.ptr), r |-> r]

\* operator=(shared_ptr&& r): shared_ptr<T>(std::move(r)).swap(*this), for
\* distinct *this and r: the temporary takes r's state and leaves r empty,
\* swaps with *this and releases the old state of *this
move_assign(cbs, a, r) ==
  [cbs |-> shared_dtor(cbs, a.control), a |-> Strong(r.control, r.ptr), r |-> EmptyS]

SharedMoveAssign(a, r) ==
  /\ sh[a].live /\ sh[r].live /\ SType(a) = SType(r)
  /\ IF a = r
     THEN UNCHANGED <<cb, sh>>
     ELSE LET res == move_assign(cb, sh[a], sh[r]) IN
            /\ cb' = res.cbs
            /\ sh' = [sh EXCEPT ![a] = res.a, ![r] = res.r]
  /\ last' = Op("SharedMoveAssign", a, r, 0,
                IF sh[a].control # Null /\ sh[a].control = sh[r].control THEN 1 ELSE 0)
  /\ UNCHANGED <<nalloc, wk, tainted>>

\* operator=(shared_ptr<Y>&& r): shared_ptr<T>(std::move(r)).swap(*this);
\* shared_ptr<T> has no constructor from shared_ptr<Y>&&, so the temporary
\* is built by the converting copy constructor and r keeps its state
SharedMoveAssignConv(a, r) ==
  /\ sh[a].live /\ sh[r].live /\ SType(a) = "T" /\ SType(r) = "Y"
  /\ cb' = shared_dtor(increase_control(cb, sh[r].control), sh[a].control)
  /\ sh' = [sh EXCEPT ![a] = Strong(sh[r].control, static_cast(sh[r].ptr))]
  /\ last' = Op("SharedMoveAssignConv", a, r, 0, 0)
  /\ UNCHANGED <<nalloc, wk, tainted>>

\* ---------------------------------------------------- shared_ptr modifiers
\* reset(): shared_ptr().swap(*this)
SharedReset(a) ==
  /\ sh[a].live
  /\ cb' = shared_dtor(cb, sh[a].control)
  /\ sh' = [sh EXCEPT ![a] = EmptyS]
  /\ last' = Op("SharedReset", a, None, 0, 0)
  /\ UNCHANGED <<nalloc, wk, tainted>>

\* reset(Y* p): shared_ptr<T>(p).swap(*this)
SharedResetPtr(a) ==
  /\ sh[a].live
  /\ nalloc < MaxBlocks
  /\ cb' = shared_dtor(NewOwner(cb, nalloc + 1, nalloc + 1, "default_delete"),
                       sh[a].control)
  /\ sh' = [sh EXCEPT ![a] = Strong(nalloc + 1, static_cast(nalloc + 1))]
  /\ nalloc' = nalloc + 1
  /\ last' = Op("SharedResetPtr", a, None, 1, 0)
  /\ UNCHANGED <<wk, tainted>>

\* reset(Y* p, Deleter d): shared_ptr<T>(p, d).swap(*this)
SharedResetPtrDeleter(a) ==
  /\ sh[a].live
  /\ nalloc < MaxBlocks
  /\ cb' = shared_dtor(NewOwner(cb, nalloc + 1, nalloc + 1, "D"), sh[a].control)
  /\ sh' = [sh EXCEPT ![a] = Strong(nalloc + 1, static_cast(nalloc + 1))]
  /\ nalloc' = nalloc + 1
  /\ last' = Op("SharedResetPtrDeleter", a, None, 1, 0)
  /\ UNCHANGED <<wk, tainted>>

\* swap(shared_ptr& r)
SharedSwap(a, r) ==
  /\ sh[a].live /\ sh[r].live /\ SType(a) = SType(r)
  /\ sh' = [sh EXCEPT ![a] = sh[r], ![r] = sh[a]]
  /\ last' = Op("SharedSwap", a, r, 0, 0)
  /\ UNCHANGED <<cb, nalloc, wk, tainted>>

\* ------------------------------------------------------------- weak_ptr
\* weak_ptr()
WeakDefault(w) ==
  /\ ~wk[w].live
  /\ wk' = [wk EXCEPT ![w] = EmptyW]
  /\ last' = Op("WeakDefault", w, None, 0, 0)
  /\ UNCHANGED <<cb, nalloc, sh, tainted>>

\* the members a weak_ptr takes from the handle it is built from
weak_of_weak(r) == [live |-> TRUE, control |-> r.control, ptr |-> r.ptr, from |-> r.from]
weak_of_shared(s) ==
  [live |-> TRUE, control |-> s.control, ptr |-> static_cast(s.ptr), from |-> get(s)]

\* weak_ptr(const weak_ptr& r)
WeakCopy(w, r) ==
  /\ ~wk[w].live /\ wk[r].live
  /\ cb' = weak_increase_control(cb, wk[r].control)
  /\ wk' = [wk EXCEPT ![w] = weak_of_weak(wk[r])]
  /\ last' = Op("WeakCopy", w, r, 0, 0)
  /\ UNCHANGED <<nalloc, sh, tainted>>

\* weak_ptr(const shared_ptr<Y>& r)
WeakFromShared(w, s) ==
  /\ ~wk[w].live /\ sh[s].live
  /\ cb' = weak_increase_control(cb, sh[s].control)
  /\ wk' = [wk EXCEPT ![w] = weak_of_shared(sh[s])]
  /\ last' = Op("WeakFromShared", w, s, 0, 0)
  /\ UNCHANGED <<nalloc, sh, tainted>>

\* weak_ptr(weak_ptr&& r): r.swap(*this); weak_ptr<T>().swap(r)
WeakMove(w, r) ==
  /\ ~wk[w].live /\ wk[r].live
  /\ wk' = [wk EXCEPT ![w] = weak_of_weak(wk[r]), ![r] = EmptyW]
  /\ last' = Op("WeakMove", w, r, 0, 0)
  /\ UNCHANGED <<cb, nalloc, sh, tainted>>

\* ~weak_ptr()
WeakDestroy(w) ==
  /\ wk[w].live
  /\ cb' = weak_dtor(cb, wk[w].control)
  /\ wk' = [wk EXCEPT ![w] = DeadW]
  /\ last' = Op("WeakDestroy", w, None, 0, 0)
  /\ UNCHANGED <<nalloc, sh, tainted>>

\* operator=(const weak_ptr& r): weak_ptr<T>(r).swap(*this)
WeakCopyAssign(a, r) ==
  /\ wk[a].live /\ wk[r].live
  /\ cb' = weak_dtor(weak_increase_control(cb, wk[r].control), wk[a].control)
  /\ wk' = [wk EXCEPT ![a] = weak_of_weak(wk[r])]
  /\ last' = Op("WeakCopyAssign", a, r, 0, 0)
  /\ UNCHANGED <<nalloc, sh, tainted>>

\* operator=(const shared_ptr<Y>& r): weak_ptr<T>(r).swap(*this)
WeakAssignShared(a, s) ==
  /\ wk[a].live /\ sh[s].live
  /\ cb' = weak_dtor(weak_increase_control(cb, sh[s].control), wk[a].control)
  /\ wk' = [wk EXCEPT ![a] = weak_of_shared(sh[s])]
  /\ last' = Op("WeakAssignShared", a, s, 0, 0)
  /\ UNCHANGED <<nalloc, sh, tainted>>

\* operator=(weak_ptr&& r): weak_ptr<T>(std::move(r)).swap(*this)
WeakMoveAssign(a, r) ==
  /\ wk[a].live /\ wk[r].live
  /\ IF a = r
     THEN UNCHANGED <<cb, wk>>
     ELSE /\ cb' = weak_dtor(cb, wk[a].control)
          /\ wk' = [wk EXCEPT ![a] = wk[r], ![r] = EmptyW]
  /\ last' = Op("WeakMoveAssign", a, r, 0,
                IF wk[a].control # Null /\ wk[a].control = wk[r].control THEN 1 ELSE 0)
  /\ UNCHANGED <<nalloc, sh, tainted>>

\* reset() that forgets weak_counter--
weak_reset_keeps_count(cbs, c) == cbs

\* weak_ptr::reset(): weak_counter--, control = nullptr; ptr is kept and the
\* counters are not compared with zero
weak_reset(cbs, c) == [cbs EXCEPT ![c].weak_counter = @ - 1]

WeakReset(w) ==
  /\ wk[w].live
  /\ IF wk[w].control = Null
     THEN UNCHANGED <<cb, wk>>
     ELSE /\ cb' = weak_reset(cb, wk[w].control)
          /\ wk' = [wk EXCEPT ![w].control = Null]
  /\ last' = Op("WeakReset", w, None, 0, 0)
  /\ UNCHANGED <<nalloc, sh, tainted>>

\* swap(weak_ptr& r)
WeakSwap(a, r) ==
  /\ wk[a].live /\ wk[r].live
  /\ wk' = [wk EXCEPT ![a] = wk[r], ![r] = wk[a]]
  /\ last' = Op("WeakSwap", a, r, 0, 0)
  /\ UNCHANGED <<cb, nalloc, sh, tainted>>

\* lock() that forgets increase_control()
lock_without_increase(cbs, w) ==
  IF expired(cbs, w) THEN [cbs |-> cbs, s |-> EmptyS]
  ELSE [cbs |-> cbs, s |-> Strong(w.control, w.ptr)]

\* lock(): expired() ? shared_ptr<T>() : shared_ptr<T>(*this)
lock(cbs, w) ==
  IF expired(cbs, w) THEN [cbs |-> cbs, s |-> EmptyS]
  ELSE [cbs |-> increase_control(cbs, w.control), s |-> Strong(w.control, w.ptr)]

Lock(w, h) ==
  /\ wk[w].live /\ ~sh[h].live /\ SType(h) = "T"
  /\ LET res == lock(cb, wk[w]) IN
       /\ cb' = res.cbs
       /\ sh' = [sh EXCEPT ![h] = res.s]
  /\ last' = Op("Lock", h, w, 0, weak_use_count(cb, wk[w]))
  /\ UNCHANGED <<nalloc, wk, tainted>>

\* ------------------------------------------------------------ specification
\* the program performs at most MaxOps operations
Tick == nops < MaxOps /\ nops' = nops + 1 /\ UNCHANGED <<mem, stack>>

\* Programs that differ only in the names of their variables behave alike:
\* of two unused variables of one type the program takes a before b and u
\* before v.
NextVar(h) == h = "b" => sh["a"].live
NextWeak(w) == w = "v" => wk["u"].live

\* one operation of the program
Next ==
  \/ \E h \in SHandles : Tick /\ NextVar(h) /\ SharedDefault(h)
  \/ \E h \in SHandles : Tick /\ NextVar(h) /\ SharedFromPtr(h)
  \/ \E h \in SHandles : Tick /\ NextVar(h) /\ SharedFromPtrDeleter(h)
  \/ \E h \in SHandles : Tick /\ NextVar(h) /\ SharedFromNullDeleter(h)
  \/ \E h \in SHandles : Tick /\ NextVar(h) /\ MakeShared(h)
  \/ \E h, r \in SHandles, p \in AliasPtrs : Tick /\ NextVar(h) /\ AliasCopy(h, r, p)
  \/ \E h, r \in SHandles, p \in AliasPtrs : Tick /\ NextVar(h) /\ AliasMove(h, r, p)
  \/ \E h, r \in SHandles : Tick /\ NextVar(h) /\ SharedCopy(h, r)
  \/ \E h, r \in SHandles : Tick /\ NextVar(h) /\ SharedCopyConv(h, r)
  \/ \E h, r \in SHandles : Tick /\ NextVar(h) /\ SharedMove(h, r)
  \/ \E h \in SHandles, w \in WHandles : Tick /\ NextVar(h) /\ SharedFromWeak(h, w)
  \/ \E h \in SHandles : Tick /\ SharedDestroy(h)
  \/ \E a, r \in SHandles : Tick /\ SharedCopyAssign(a, r)
  \/ \E a, r \in SHandles : Tick /\ SharedCopyAssignConv(a, r)
  \/ \E a, r \in SHandles : Tick /\ SharedMoveAssign(a, r)
  \/ \E a, r \in SHandles : Tick /\ SharedMoveAssignConv(a, r)
  \/ \E a \in SHandles : Tick /\ SharedReset(a)
  \/ \E a \in SHandles : Tick /\ SharedResetPtr(a)
  \/ \E a \in SHandles : Tick /\ SharedResetPtrDeleter(a)
  \/ \E a, r \in SHandles : Tick /\ SharedSwap(a, r)
  \/ \E w \in WHandles : Tick /\ NextWeak(w) /\ WeakDefault(w)
  \/ \E w, r \in WHandles : Tick /\ NextWeak(w) /\ WeakCopy(w, r)
  \/ \E w \in WHandles, s \in SHandles : Tick /\ NextWeak(w) /\ WeakFromShared(w, s)
  \/ \E w, r \in WHandles : Tick /\ NextWeak(w) /\ WeakMove(w, r)
  \/ \E w \in WHandles : Tick /\ WeakDestroy(w)
  \/ \E a, r \in WHandles : Tick /\ WeakCopyAssign(a, r)
  \/ \E a \in WHandles, s \in SHandles : Tick /\ WeakAssignShared(a, s)
  \/ \E a, r \in WHandles : Tick /\ WeakMoveAssign(a, r)
  \/ \E w \in WHandles : Tick /\ WeakReset(w)
  \/ \E a, r \in WHandles : Tick /\ WeakSwap(a, r)
  \/ \E w \in WHandles, h \in SHandles : Tick /\ NextVar(h) /\ Lock(w, h)

Spec == Init /\ [][Next]_vars

\* Structural facts the operations rely on: counters stay natural numbers,
\* and a live handle never refers to a block that is unallocated or released.
TypeOK ==
  /\ nalloc \in 0..MaxBlocks
  /\ \A b \in Blocks : cb[b].shared_counter \in Nat /\ cb[b].weak_counter \in Nat
  /\ \A h \in SHandles : sh[h].control \in 0..nalloc /\ sh[h].ptr \in Ptrs
  /\ \A w \in WHandles : wk[w].control \in 0..nalloc /\ wk[w].ptr \in Ptrs

NoDangling ==
  /\ \A h \in SHandles : sh[h].control # Null => cb[sh[h].control].released = 0
  /\ \A w \in WHandles : wk[w].control # Null => cb[wk[w].control].released = 0

\* ------------------------------------ member functions, statement by statement
\* The second specification runs ~shared_ptr, ~weak_ptr and
\* operator=(const shared_ptr&) one statement at a time on handles to Node
\* objects, so that the destructors of the handles a Node holds run inside
\* delete_object().  stack is the call stack, the running function last.  An
\* execution that reads or writes released storage or a destroyed handle is
\* undefined from there on and is not followed: the frame "undefined" has no
\* step.
NodeHandles == {"a", "b"}

Frame(f, p, c, a, s) == [fn |-> f, pc |-> p, c |-> c, a |-> a, src |-> s]
Top == stack[Len(stack)]
Rest == SubSeq(stack, 1, Len(stack) - 1)
Running(f, p) == stack # <<>> /\ Top.fn = f /\ Top.pc = p
Goto(p) == Append(Rest, [Top EXCEPT !.pc = p])
Undefined == Append(stack, Frame("undefined", None, Null, None, None))

\* the storage of control block c has been released
Freed(c) == c # Null /\ cb[c].released > 0

\* the handle that the parameter r of a running operator= refers to: a
\* variable of the program, or the member next of the Node at address f.c
Source(f) == IF f.src = "next" THEN mem[f.c].next ELSE sh[f.src]

\* the program calls a member function: no call is running
Call == stack = <<>> /\ nops < MaxOps /\ nops' = nops + 1 /\ UNCHANGED <<wk, tainted>>

\* one statement of the running function
Step == UNCHANGED <<nalloc, wk, tainted, nops>>

\* shared_ptr<Node> h(new Node)
NewNode(h) ==
  /\ ~sh[h].live
  /\ nalloc < MaxBlocks
  /\ cb' = NewOwner(cb, nalloc + 1, nalloc + 1, "default_delete")
  /\ sh' = [sh EXCEPT ![h] = Strong(nalloc + 1, static_cast(nalloc + 1))]
  /\ mem' = Append(mem, NewNodeMembers)
  /\ nalloc' = nalloc + 1
  /\ last' = Op("NewNode", h, None, 1, 0)
  /\ UNCHANGED stack

\* h->next = r, for a Node whose next is empty: operator=(const shared_ptr&)
\* with nothing to release
SetNext(h, r) ==
  /\ sh[h].live /\ sh[r].live
  /\ bool(sh[h]) /\ mem[get(sh[h])].alive
  /\ mem[get(sh[h])].next = EmptyS
  /\ LET res == copy_assign(cb, mem[get(sh[h])].next, sh[r]) IN
       /\ cb' = res.cbs
       /\ mem' = [mem EXCEPT ![get(sh[h])].next = res.a]
  /\ last' = Op("SetNext", h, r, 0, 0)
  /\ UNCHANGED <<nalloc, sh, stack>>

\* h->self = h, for a Node whose self is empty:
\* weak_ptr::operator=(const shared_ptr<Y>&)
SetSelf(h) ==
  /\ sh[h].live
  /\ bool(sh[h]) /\ mem[get(sh[h])].alive
  /\ mem[get(sh[h])].self = EmptyW
  /\ cb' = weak_dtor(weak_increase_control(cb, sh[h].control),
                     mem[get(sh[h])].self.control)
  /\ mem' = [mem EXCEPT ![get(sh[h])].self = weak_of_shared(sh[h])]
  /\ last' = Op("SetSelf", h, h, 0, 0)
  /\ UNCHANGED <<nalloc, sh, stack>>

\* the variable h goes out of scope: ~shared_ptr() is entered
CallDestroy(h) ==
  /\ sh[h].live
  /\ sh' = [sh EXCEPT ![h] = DeadS]
  /\ stack' = <<Frame("~shared_ptr", "entry", sh[h].control, None, None)>>
  /\ last' = Op("CallDestroy", h, None, 0, 0)
  /\ UNCHANGED <<cb, nalloc, mem>>

\* a = r: operator=(const shared_ptr& r) is entered
CallAssign(a, r) ==
  /\ sh[a].live /\ sh[r].live
  /\ stack' = <<Frame("operator=", "compare", Null, a, r)>>
  /\ last' = Op("CallAssign", a, r, 0, 0)
  /\ UNCHANGED <<cb, nalloc, sh, mem>>

\* a = a->next: operator=(const shared_ptr& r) is entered with r bound to the
\* member next of the Node a points to
CallAssignNext(a) ==
  /\ sh[a].live
  /\ bool(sh[a]) /\ mem[get(sh[a])].alive
  /\ stack' = <<Frame("operator=", "compare", get(sh[a]), a, "next")>>
  /\ last' = Op("CallAssignNext", a, "next", 0, 0)
  /\ UNCHANGED <<cb, nalloc, sh, mem>>

\* operator=: if (*this == r) return *this;
AssignCompare ==
  /\ Running("operator=", "compare")
  /\ stack' = IF equals(sh[Top.a], Source(Top)) THEN Rest ELSE Goto("swap")
  /\ last' = Op("AssignCompare", Top.a, Top.src, 0, 0)
  /\ UNCHANGED <<cb, sh, mem>>

\* operator=: shared_ptr<T>().swap(*this); the temporary takes the state of
\* *this and its destructor is entered at the end of the statement
AssignSwapTemp ==
  /\ Running("operator=", "swap")
  /\ sh' = [sh EXCEPT ![Top.a] = EmptyS]
  /\ stack' = Append(Goto("control"),
                     Frame("~shared_ptr", "entry", sh[Top.a].control, None, None))
  /\ last' = Op("AssignSwapTemp", Top.a, Top.src, 0, 0)
  /\ UNCHANGED <<cb, mem>>

\* operator=: control = r.control; increase_control();
AssignControl ==
  /\ Running("operator=", "control")
  /\ IF Source(Top).live /\ ~Freed(Source(Top).control)
     THEN /\ cb' = increase_control(cb, Source(Top).control)
          /\ sh' = [sh EXCEPT ![Top.a].control = Source(Top).control]
          /\ stack' = Goto("ptr")
     ELSE /\ stack' = Undefined
          /\ UNCHANGED <<cb, sh>>
  /\ last' = Op("AssignControl", Top.a, Top.src, 0, Source(Top).control)
  /\ UNCHANGED mem

\* operator=: ptr = r.ptr; return *this;
AssignPtr ==
  /\ Running("operator=", "ptr")
  /\ IF Source(Top).live
     THEN /\ sh' = [sh EXCEPT ![Top.a].ptr = Source(Top).ptr]
          /\ stack' = Rest
     ELSE /\ stack' = Undefined
          /\ UNCHANGED sh
  /\ last' = Op("AssignPtr", Top.a, Top.src, 0, 0)
  /\ UNCHANGED <<cb, mem>>

\* ~shared_ptr: if (control == nullptr) return; control->shared_counter--;
\* if (control->shared_counter == 0) ...
DtorDec ==
  /\ Running("~shared_ptr", "entry")
  /\ IF Top.c = Null
     THEN stack' = Rest /\ UNCHANGED cb
     ELSE IF Freed(Top.c)
     THEN stack' = Undefined /\ UNCHANGED cb
     ELSE /\ cb' = [cb EXCEPT ![Top.c].shared_counter = @ - 1]
          /\ stack' = IF cb[Top.c].shared_counter = 1 THEN Goto("delete_object") ELSE Rest
  /\ last' = Op("DtorDec", None, None, 0, Top.c)
  /\ UNCHANGED <<sh, mem>>

\* ~shared_ptr: control->delete_object(); the deleter runs ~Node on the object
DtorDeleteObject ==
  /\ Running("~shared_ptr", "delete_object")
  /\ cb' = delete_object(cb, Top.c)
  /\ stack' = IF mem[cb[Top.c].ptr].alive
              THEN Append(Goto("check_weak"),
                          Frame("~Node", "self", cb[Top.c].ptr, None, None))
              ELSE Undefined
  /\ last' = Op("DtorDeleteObject", None, None, 0, Top.c)
  /\ UNCHANGED <<sh, mem>>

\* ~shared_ptr: if (control->weak_counter == 0) delete control;
DtorCheckWeak ==
  /\ Running("~shared_ptr", "check_weak")
  /\ IF Freed(Top.c)
     THEN stack' = Undefined /\ UNCHANGED cb
     ELSE /\ cb' = IF cb[Top.c].weak_counter = 0 THEN delete_control(cb, Top.c) ELSE cb
          /\ stack' = Rest
  /\ last' = Op("DtorCheckWeak", None, None, 0, Top.c)
  /\ UNCHANGED <<sh, mem>>

\* ~weak_ptr
WeakDtor ==
  /\ Running("~weak_ptr", "entry")
  /\ IF Freed(Top.c)
     THEN stack' = Undefined /\ UNCHANGED cb
     ELSE cb' = weak_dtor(cb, Top.c) /\ stack' = Rest
  /\ last' = Op("WeakDtor", None, None, 0, Top.c)
  /\ UNCHANGED <<sh, mem>>

\* ~Node: the members are destroyed in reverse order of declaration, self first
NodeDtorSelf ==
  /\ Running("~Node", "self")
  /\ mem' = [mem EXCEPT ![Top.c].self.live = FALSE]
  /\ stack' = Append(Goto("next"),
                     Frame("~weak_ptr", "entry", mem[Top.c].self.control, None, None))
  /\ last' = Op("NodeDtorSelf", None, None, 0, 0)
  /\ UNCHANGED <<cb, sh>>

NodeDtorNext ==
  /\ Running("~Node", "next")
  /\ mem' = [mem EXCEPT ![Top.c].next.live = FALSE]
  /\ stack' = Append(Goto("done"),
                     Frame("~shared_ptr", "entry", mem[Top.c].next.control, None, None))
  /\ last' = Op("NodeDtorNext", None, None, 0, 0)
  /\ UNCHANGED <<cb, sh>>

\* ~Node returns and the storage of the object is freed
NodeDtorDone ==
  /\ Running("~Node", "done")
  /\ mem' = [mem EXCEPT ![Top.c].alive = FALSE]
  /\ stack' = Rest
  /\ last' = Op("NodeDtorDone", None, None, 0, 0)
  /\ UNCHANGED <<cb, sh>>

NextSteps ==
  \/ \E h \in NodeHandles : Call /\ NewNode(h)
  \/ \E h, r \in NodeHandles : Call /\ SetNext(h, r)
  \/ \E h \in NodeHandles : Call /\ SetSelf(h)
  \/ \E h \in NodeHandles : Call /\ CallDestroy(h)
  \/ \E a, r \in NodeHandles : Call /\ CallAssign(a, r)
  \/ \E a \in NodeHandles : Call /\ CallAssignNext(a)
  \/ Step /\ AssignCompare
  \/ Step /\ AssignSwapTemp
  \/ Step /\ AssignControl
  \/ Step /\ AssignPtr
  \/ Step /\ DtorDec
  \/ Step /\ DtorDeleteObject
  \/ Step /\ DtorCheckWeak
  \/ Step /\ WeakDtor
  \/ Step /\ NodeDtorSelf
  \/ Step /\ NodeDtorNext
  \/ Step /\ NodeDtorDone

SpecSteps == Init /\ [][NextSteps]_vars

\* ------------------------------------------------------------- properties
Allocated == 1..nalloc

\* C1: for every control block that has not been released, shared_counter
\* equals the number of live shared_ptr variables whose control pointer
\* refers to the block.
C1_SharedCounterIsLiveCount ==
  \A b \in Allocated :
    cb[b].released = 0 => cb[b].shared_counter = Cardinality(StrongOn(b))

\* C2: on a block that no shared_ptr(const weak_ptr&) was applied to while it
\* was expired, delete_object() runs in exactly the steps that take
\* shared_counter from 1 to 0: at most once, never while a shared_ptr to the
\* block is live, and it has run once whenever shared_counter is 0.
C2_DeleteObjectOnceAtZero ==
  /\ [](\A b \in Allocated : ~tainted[b] =>
          /\ Len(cb[b].deleted) <= 1
          /\ (Len(cb[b].deleted) = 1 <=> cb[b].shared_counter = 0)
          /\ (Len(cb[b].deleted) = 1 => StrongOn(b) = {}))
  /\ [][\A b \in Blocks : ~tainted'[b] =>
          Len(cb'[b].deleted) = Len(cb[b].deleted) +
            (IF cb[b].shared_counter = 1 /\ cb'[b].shared_counter = 0 THEN 1 ELSE 0)]_vars

C2_Witness ==
  \E b \in Allocated :
    /\ ~tainted[b] /\ cb[b].shared_counter = 0 /\ Len(cb[b].deleted) = 1
    /\ cb[b].weak_counter > 0 /\ cb[b].released = 0

\* C3: the storage of a control block is released at most once, and it is
\* released exactly when both counters are 0.
C3_ReleasedIffBothZero ==
  \A b \in Allocated :
    /\ cb[b].released <= 1
    /\ cb[b].released = 1 <=> (cb[b].shared_counter = 0 /\ cb[b].weak_counter = 0)

\* C4: a weak_ptr whose group has no live shared_ptr left is expired, and
\* lock() on it returns an empty shared_ptr and changes no counter.
C4_ExpiredAfterLastStrong ==
  \A w \in WHandles :
    wk[w].live /\ wk[w].control # Null /\ StrongOn(wk[w].control) = {} =>
      /\ expired(cb, wk[w])
      /\ lock(cb, wk[w]) = [cbs |-> cb, s |-> EmptyS]

\* C5 (as amended): lock() on a weak_ptr whose block has shared_counter n >= 1
\* returns a shared_ptr on that block whose get() is the object pointer of
\* the strong handle the weak_ptr descends from, raises shared_counter to
\* n + 1, and converts to true exactly when that pointer is not null.
C5_LockShares ==
  [][last'.op = "Lock" /\ weak_use_count(cb, wk[last'.src]) >= 1 =>
       LET w == wk[last'.src]
           r == sh'[last'.dst]
       IN /\ r.control = w.control
          /\ get(r) = w.from
          /\ cb'[w.control].shared_counter = cb[w.control].shared_counter + 1
          /\ use_count(cb', r) = weak_use_count(cb, w) + 1
          /\ bool(r) <=> w.from # Null]_vars

\* C5 (as stated): the shared_ptr lock() returns always converts to true.
C5_LockNonEmpty ==
  [][last'.op = "Lock" /\ weak_use_count(cb, wk[last'.src]) >= 1 =>
       LET w == wk[last'.src]
           r == sh'[last'.dst]
       IN /\ r.control = w.control
          /\ get(r) = w.from
          /\ cb'[w.control].shared_counter = cb[w.control].shared_counter + 1
          /\ bool(r)]_vars

C5_Witness ==
  /\ last.op = "Lock" /\ last.pre >= 1
  /\ sh[last.dst].control # Null
  /\ cb[sh[last.dst].control].shared_counter = last.pre + 1
  /\ ~bool(sh[last.dst])

\* C6 (as amended): a move construction or move assignment from a distinct
\* source of the same type leaves the source empty and gives the destination
\* the control block and object pointer the source held; the counters of
\* that block are unchanged, except that a move assignment into a handle
\* that already referred to the same block releases that reference
\* (shared_counter one lower for shared_ptr, weak_counter for weak_ptr).
C6_MoveTransfers ==
  [][/\ last'.op \in {"SharedMove", "SharedMoveAssign"} /\ last'.dst # last'.src =>
          LET d == last'.dst
              s == last'.src
              c == sh[s].control
          IN /\ sh'[s].control = Null /\ use_count(cb', sh'[s]) = 0 /\ ~bool(sh'[s])
             /\ sh'[d].control = c /\ get(sh'[d]) = get(sh[s])
             /\ c # Null =>
                  /\ cb'[c].shared_counter =
                       cb[c].shared_counter - (IF sh[d].control = c THEN 1 ELSE 0)
                  /\ cb'[c].weak_counter = cb[c].weak_counter
     /\ last'.op \in {"WeakMove", "WeakMoveAssign"} /\ last'.dst # last'.src =>
          LET d == last'.dst
              s == last'.src
              c == wk[s].control
          IN /\ wk'[s].control = Null /\ weak_use_count(cb', wk'[s]) = 0
             /\ wk'[d].control = c /\ wk'[d].ptr = wk[s].ptr
             /\ c # Null =>
                  /\ cb'[c].weak_counter =
                       cb[c].weak_counter - (IF wk[d].control = c THEN 1 ELSE 0)
                  /\ cb'[c].shared_counter = cb[c].shared_counter]_vars

\* C6 (as stated): the counters of the source's control block are unchanged
\* by every such move.
C6_MoveKeepsCounters ==
  [][/\ last'.op \in {"SharedMove", "SharedMoveAssign"} /\ last'.dst # last'.src =>
          LET d == last'.dst
              s == last'.src
              c == sh[s].control
          IN /\ sh'[s].control = Null /\ use_count(cb', sh'[s]) = 0 /\ ~bool(sh'[s])
             /\ sh'[d].control = c /\ get(sh'[d]) = get(sh[s])
             /\ c # Null =>
                  /\ cb'[c].shared_counter = cb[c].shared_counter
                  /\ cb'[c].weak_counter = cb[c].weak_counter
     /\ last'.op \in {"WeakMove", "WeakMoveAssign"} /\ last'.dst # last'.src =>
          LET d == last'.dst
              s == last'.src
              c == wk[s].control
          IN /\ wk'[s].control = Null /\ weak_use_count(cb', wk'[s]) = 0
             /\ wk'[d].control = c /\ wk'[d].ptr = wk[s].ptr
             /\ c # Null =>
                  /\ cb'[c].weak_counter = cb[c].weak_counter
                  /\ cb'[c].shared_counter = cb[c].shared_counter]_vars

C6_Witness ==
  /\ last.op = "SharedMoveAssign" /\ last.dst # last.src /\ last.pre = 1
  /\ sh[last.src] = EmptyS
  /\ sh[last.dst].control # Null

\* C7: copy assignment from a shared_ptr of the same type with the same
\* object pointer changes no counter, runs no delete_object() and leaves the
\* control pointer and object pointer of every handle as they were.
C7_SameObjectAssignIsNoop ==
  [][last'.op = "SharedCopyAssign" /\ equals(sh[last'.dst], sh[last'.src]) =>
       cb' = cb /\ sh' = sh]_vars

C7_Witness ==
  /\ last.op = "SharedCopyAssign" /\ last.pre = 1 /\ last.dst # last.src
  /\ sh[last.dst].control # Null
  /\ sh[last.dst].control = sh[last.src].control
  /\ cb[sh[last.dst].control].shared_counter = 2

\* C8: make_shared makes one heap allocation, the co-allocated init_block,
\* and returns a shared_ptr with use_count() 1.
C8_MakeSharedOneAllocation ==
  last.op = "MakeShared" =>
    /\ last.allocs = 1
    /\ cb[sh[last.dst].control].variant = "init_block"
    /\ use_count(cb, sh[last.dst]) = 1

\* C9: for a block built from pointer P with deleter D, D has been called
\* exactly once, with P, when no strong handle of the group is left, and has
\* not been called while one is; no other deleter is called.
C9_DeleterOnceAtLastDrop ==
  \A b \in Allocated :
    cb[b].deleter = "D" /\ cb[b].ptr # Null /\ ~tainted[b] =>
      IF StrongOn(b) = {}
      THEN cb[b].deleted = <<[fn |-> "D", arg |-> b]>>
      ELSE cb[b].deleted = <<>>

\* C10: an aliasing constructor gives a handle on the donor's control block
\* whose get() is the element pointer and which counts in the use_count() of
\* a donor that owns a block; in a
\* group with an aliasing handle delete_object() has not run while a strong
\* handle is left, and runs once, on the donor's object, in the step that
\* drops the last of them.
C10_AliasKeepsDonorAlive ==
  [][/\ last'.op \in {"AliasCopy", "AliasMove"} =>
          LET d == last'.dst
              s == last'.src
          IN /\ sh'[d].control = sh[s].control
             /\ get(sh'[d]) = last'.pre
             /\ sh[s].control # Null =>
                  use_count(cb', sh'[d]) =
                    use_count(cb, sh[s]) + (IF last'.op = "AliasCopy" THEN 1 ELSE 0)
     /\ \A b \in Allocated :
          ~tainted[b] /\ (\E h \in StrongOn(b) : get(sh[h]) # cb[b].ptr) =>
            IF StrongOnIn(sh', b) = {}
            THEN cb'[b].deleted = <<[fn |-> cb[b].deleter, arg |-> cb[b].ptr]>>
            ELSE cb'[b].deleted = <<>>]_vars

\* C12: operator=(const shared_ptr<Y>&) on a target that owns a block releases
\* the target's previous reference exactly as ~shared_ptr would (counter one
\* lower, delete_object() at 0, storage released when weak_counter is 0 too);
\* afterwards the target is on the source's block, whose shared_counter
\* counts the target.
C12_ConvAssignReleasesOld ==
  [][last'.op = "SharedCopyAssignConv" /\ sh[last'.dst].control # Null =>
       LET a == last'.dst
           r == last'.src
       IN /\ sh'[a].control = sh[r].control
          /\ cb' = shared_dtor(increase_control(cb, sh[r].control), sh[a].control)]_vars

\* C13: operator=(shared_ptr<Y>&&) leaves the source empty (use_count() 0,
\* boolean conversion false) and leaves shared_counter of the block the source
\* held as it was, for a target that was not on that block already.
C13_ConvMoveAssignTransfers ==
  [][last'.op = "SharedMoveAssignConv" =>
       LET a == last'.dst
           r == last'.src
           c == sh[r].control
       IN /\ use_count(cb', sh'[r]) = 0 /\ ~bool(sh'[r])
          /\ c # Null /\ sh[a].control # c =>
               cb'[c].shared_counter = cb[c].shared_counter]_vars

\* C14: weak_ptr::reset() on the last reference of any kind to a block
\* (shared_counter 0, weak_counter 1) releases the block's storage; after any
\* reset() the handle is empty: use_count() 0, expired(), and destroying it
\* changes no counter.
C14_WeakResetReleases ==
  [][last'.op = "WeakReset" =>
       LET w == last'.dst
           c == wk[w].control
       IN /\ weak_use_count(cb', wk'[w]) = 0 /\ expired(cb', wk'[w])
          /\ weak_dtor(cb', wk'[w].control) = cb'
          /\ c # Null /\ cb[c].shared_counter = 0 /\ cb[c].weak_counter = 1 =>
               cb'[c].released = cb[c].released + 1]_vars

\* the operations of shared_ptr, and lock(), which returns one
StrongOps ==
  {"SharedDefault", "SharedFromPtr", "SharedFromPtrDeleter", "SharedFromNullDeleter",
   "MakeShared", "AliasCopy", "AliasMove", "SharedCopy", "SharedCopyConv",
   "SharedMove", "SharedFromWeak", "SharedDestroy", "SharedCopyAssign",
   "SharedCopyAssignConv", "SharedMoveAssign", "SharedMoveAssignConv",
   "SharedReset", "SharedResetPtr", "SharedResetPtrDeleter", "SharedSwap", "Lock"}

\* C15: on every control block that has not been released, weak_counter is
\* the number of live weak_ptr variables whose control pointer refers to the
\* block, and no operation of shared_ptr changes a weak_counter.
C15_WeakCounterIsLiveCount ==
  /\ [](\A b \in Allocated :
          cb[b].released = 0 => cb[b].weak_counter = Cardinality(WeakOn(b)))
  /\ [][last'.op \in StrongOps =>
          \A b \in Blocks : cb'[b].weak_counter = cb[b].weak_counter]_vars

C15_Witness ==
  /\ last.op = "WeakReset"
  /\ \E b \in Allocated :
       /\ cb[b].released = 0 /\ cb[b].weak_counter = 1
       /\ Cardinality(WeakOn(b)) = 1 /\ StrongOn(b) # {}
  /\ \E w \in WHandles : wk[w].live /\ wk[w].control = Null /\ wk[w].ptr # Null

\* C16: shared_ptr(const weak_ptr&) on an expired weak_ptr whose block is
\* still held by weak handles sets shared_counter to 1 and yields a handle on
\* that block with use_count() 1 although delete_object() has run; destroying
\* that handle runs delete_object() on the block once more; lock() on an
\* expired weak_ptr returns an empty handle and changes no counter.
C16_PromoteUnchecked ==
  [][/\ last'.op = "SharedFromWeak" /\ wk[last'.src].control # Null
          /\ cb[wk[last'.src].control].shared_counter = 0
          /\ cb[wk[last'.src].control].weak_counter >= 1 =>
            LET c == wk[last'.src].control
                r == sh'[last'.dst]
            IN /\ r.control = c
               /\ cb'[c].shared_counter = 1 /\ use_count(cb', r) = 1
               /\ Len(cb[c].deleted) >= 1 /\ cb'[c].deleted = cb[c].deleted
               /\ cb'[c].released = 0
     /\ last'.op = "SharedDestroy" /\ sh[last'.dst].control # Null
          /\ cb[sh[last'.dst].control].shared_counter = 1
          /\ Len(cb[sh[last'.dst].control].deleted) >= 1 =>
            LET c == sh[last'.dst].control
            IN cb'[c].deleted =
                 Append(cb[c].deleted, [fn |-> cb[c].deleter, arg |-> cb[c].ptr])
     /\ last'.op = "Lock" /\ expired(cb, wk[last'.src]) =>
            sh'[last'.dst] = EmptyS /\ cb' = cb]_vars

C16_Witness ==
  /\ last.op = "SharedDestroy"
  /\ \E b \in Allocated :
       /\ tainted[b] /\ Len(cb[b].deleted) = 2
       /\ cb[b].deleted[1] = cb[b].deleted[2]
       /\ cb[b].shared_counter = 0 /\ cb[b].weak_counter >= 1

\* C18: after operator=(const shared_ptr&) the target and the source refer to
\* the same control block, with equal use_count() and equal get(), whatever
\* the two handles held before.
C18_CopyAssignShares ==
  [][last'.op = "SharedCopyAssign" =>
       LET a == sh'[last'.dst]
           b == sh'[last'.src]
       IN /\ a.control = b.control
          /\ use_count(cb', a) = use_count(cb', b)
          /\ get(a) = get(b)]_vars

\* C11: in a = b (operator=(const shared_ptr&), not short-circuited) the
\* previous reference of a is released, that is the shared_counter of its old
\* block is decremented, only when a already holds its new reference: the
\* control pointer of a is b's and b's block counts a.
C11_AcquireBeforeRelease ==
  [][last'.op = "DtorDec" /\ last'.pre # Null
       /\ Len(stack) >= 2 /\ stack[Len(stack) - 1].fn = "operator=" =>
       LET f == stack[Len(stack) - 1]
           b == Source(f)
       IN b.control # Null =>
            /\ sh[f.a].control = b.control
            /\ cb[b.control].shared_counter >= 2]_vars

\* C17: the storage of a control block is released at most once, and the
\* statement of ~shared_ptr that follows delete_object() reads weak_counter
\* of a block that has not been released, also when delete_object() destroyed
\* the last weak_ptr of the block.
C17_NoAccessAfterNestedRelease ==
  [][/\ \A b \in Blocks : cb'[b].released <= 1
     /\ last'.op = "DtorCheckWeak" => cb[last'.pre].released = 0]_vars

\* C19: in a = a->next the assignment reads the member next only while the
\* Node that holds it is alive; when the assignment returns, a is on the
\* block next referred to, whose object is not destroyed and whose
\* shared_counter is at least 1; no variable refers to a released block.
C19_AssignFromOwnedNode ==
  [][/\ last'.op \in {"AssignCompare", "AssignControl", "AssignPtr"}
          /\ Top.src = "next" /\ Source(Top).control # Null =>
            mem[Top.c].alive /\ Source(Top).live
     /\ last'.op = "AssignPtr" /\ Top.src = "next" /\ Source(Top).control # Null =>
          LET c == Source(Top).control
          IN /\ sh'[Top.a] = Strong(c, Source(Top).ptr)
             /\ cb'[c].deleted = <<>> /\ mem'[cb'[c].ptr].alive
             /\ cb'[c].shared_counter >= 1
     /\ \A h \in SHandles : ~Freed(sh[h].control)' ]_vars

====
